---- MODULE Spec2Model ----
(***************************************************************************)
(* The per-connection request lifecycle of jetforce's GeminiProtocol       *)
(* (src/jetforce/protocol.py): one protocol instance per accepted          *)
(* connection, one _handle_request_noblock coroutine per received line,    *)
(* application code run through deferToThread on the reactor thread pool.  *)
(*                                                                         *)
(* Text (str) is a sequence of code points, bytes a sequence of 0..255;    *)
(* str.encode() is UTF-8.                                                  *)
(***************************************************************************)
EXTENDS Integers, Sequences, FiniteSets, TLC

\* ------------------------------------------------------------------ bounds
\* connections sharing the reactor (event loop and thread pool)
NConns == 2
\* threads of the reactor's thread pool
PoolSize == 2
\* request lines a client may send on one connection
MaxLines == 2
\* write_status calls the application makes on one connection
MaxStatusCalls == 2
\* chunks the application's response generator yields on one connection
MaxChunks == 2
\* the same, where all connections are served together
PoolMaxChunks == 1

\* --------------------------------------------------------------- constants
\* parse_header: "URL exceeds max length of 1024 bytes"
MAX_URL_LENGTH == 1024
\* Status.BAD_REQUEST and Status.CGI_ERROR, the Gemini status codes of
\* jetforce.app.base
BAD_REQUEST == 59
CGI_ERROR == 42

Conns == 1..NConns
Handlers == 1..MaxLines

\* ------------------------------------------------------------ text, bytes
\* "Malformed request"
MALFORMED_REQUEST == <<77, 97, 108, 102, 111, 114, 109, 101, 100, 32,
                       114, 101, 113, 117, 101, 115, 116>>
\* "An unexpected error occurred"
UNEXPECTED_ERROR == <<65, 110, 32, 117, 110, 101, 120, 112, 101, 99, 116, 101,
                      100, 32, 101, 114, 114, 111, 114, 32, 111, 99, 99, 117,
                      114, 114, 101, 100>>

\* str(n) for n >= 0, as code points
RECURSIVE IntToStr(_)
IntToStr(n) ==
    IF n < 10 THEN <<48 + n>>
    ELSE IntToStr(n \div 10) \o <<48 + (n % 10)>>

\* the UTF-8 bytes of one code point
EncodeCodePoint(cp) ==
    IF cp < 128 THEN <<cp>>
    ELSE IF cp < 2048 THEN <<192 + (cp \div 64), 128 + (cp % 64)>>
    ELSE IF cp < 65536
    THEN <<224 + (cp \div 4096), 128 + ((cp \div 64) % 64), 128 + (cp % 64)>>
    ELSE <<240 + (cp \div 262144), 128 + ((cp \div 4096) % 64),
           128 + ((cp \div 64) % 64), 128 + (cp % 64)>>

\* str.encode(): text to UTF-8 bytes
RECURSIVE encode(_)
encode(text) ==
    IF text = <<>> THEN <<>>
    ELSE EncodeCodePoint(Head(text)) \o encode(Tail(text))

\* bytes decoded one byte to one character (latin-1), which never fails
RECURSIVE decode_latin1(_)
decode_latin1(bs) ==
    IF bs = <<>> THEN [ok |-> TRUE, text |-> <<>>]
    ELSE [ok |-> TRUE, text |-> <<Head(bs)>> \o decode_latin1(Tail(bs)).text]

\* bytes.decode(): UTF-8 bytes to text; ok is FALSE where Python raises
\* UnicodeDecodeError (a byte that starts no sequence, a missing or wrong
\* continuation byte, an overlong form, a surrogate, a value past U+10FFFF)
RECURSIVE decode(_)
decode(bs) ==
    IF bs = <<>> THEN [ok |-> TRUE, text |-> <<>>]
    ELSE LET b == bs[1]
             n == IF b < 128 THEN 1
                  ELSE IF b \in 194..223 THEN 2
                  ELSE IF b \in 224..239 THEN 3
                  ELSE IF b \in 240..244 THEN 4
                  ELSE 0
             wellformed ==
                 /\ n > 0
                 /\ Len(bs) >= n
                 /\ \A i \in 2..n : bs[i] \in 128..191
             cp == IF n = 1 THEN b
                   ELSE IF n = 2 THEN (b - 192) * 64 + (bs[2] - 128)
                   ELSE IF n = 3
                   THEN (b - 224) * 4096 + (bs[2] - 128) * 64 + (bs[3] - 128)
                   ELSE (b - 240) * 262144 + (bs[2] - 128) * 4096
                            + (bs[3] - 128) * 64 + (bs[4] - 128)
             valid ==
                 /\ wellformed
                 /\ n = 3 => (cp >= 2048 /\ cp \notin 55296..57343)
                 /\ n = 4 => cp \in 65536..1114111
             rest == decode(SubSeq(bs, n + 1, Len(bs)))
         IN IF valid /\ rest.ok
            THEN [ok |-> TRUE, text |-> <<cp>> \o rest.text]
            ELSE [ok |-> FALSE, text |-> <<>>]

\* a value the application may yield: str, bytes, or something else (None)
Str(cps) == [type |-> "str", v |-> cps]
Bytes(bs) == [type |-> "bytes", v |-> bs]
NoneValue == [type |-> "none", v |-> <<>>]

\* f"{status}\t{meta}\r\n"
StatusLine(status, meta) == IntToStr(status) \o <<9>> \o meta \o <<13, 10>>

\* ------------------------------------------------------------------ inputs
\* A request line of len bytes is written as its first bytes (head) followed
\* by ASCII letters up to len bytes, and a text of len characters likewise
\* as its first code points followed by the same letters.
\* "g\xc3\xa9" ("gé")
UTF8_HEAD == <<103, 195, 169>>
\* "g\xff" (0xff starts no UTF-8 sequence) and "\xc0\xaf" (overlong "/")
Heads == {UTF8_HEAD, <<103, 255>>, <<192, 175>>}

\* request lines handed to lineReceived
Requests == [len : {21, MAX_URL_LENGTH, MAX_URL_LENGTH + 1, MAX_URL_LENGTH + 476},
             head : Heads]

\* self.server: the configured hostname and port
Server == [hostname |-> "example.org", port |-> 1965]

\* transport.getPeer() of connection c: the client's address and port
getPeer(c) == [host |-> <<192, 0, 2, c>>, port |-> 50000 + c]

\* transport.getPeerCertificate() with what build_environ reads from it (the
\* fields inspect_certificate returns, and the TLS session's verified flag,
\* cipher and protocol version), or None; inspecting the third one raises
NoCertificate == [present |-> FALSE, inspects |-> TRUE]
ClientCertificate ==
    [present |-> TRUE, inspects |-> TRUE,
     common_name |-> "alice", fingerprint |-> "SHA256:b5bb9d80",
     not_before |-> 20200101, not_after |-> 20300101, serial_number |-> 4097,
     verified |-> TRUE, cipher |-> "TLS_AES_256_GCM_SHA384",
     version |-> "TLSv1.3"]
BrokenCertificate == [present |-> TRUE, inspects |-> FALSE]
PeerCertificates == {NoCertificate, ClientCertificate, BrokenCertificate}

\* (status, meta) pairs the application passes to write_status:
\* 20 "text/gemini" and 51 "Not found"
AppStatuses == {
    [status |-> 20,
     meta |-> <<116, 101, 120, 116, 47, 103, 101, 109, 105, 110, 105>>],
    [status |-> 51,
     meta |-> <<78, 111, 116, 32, 102, 111, 117, 110, 100>>] }

\* chunks the response generator yields: "", "hé", b"\x00\xff", None
Chunks == { Str(<<>>), Str(<<104, 233>>), Bytes(<<0, 255>>), NoneValue }

VARIABLES
    conn,    \* conn[c]: the GeminiProtocol instance of connection c
    co,      \* co[c][h]: the _handle_request_noblock coroutine of c's h-th line
    client   \* client[c]: the request lines the peer of c has yet to send

vars == <<conn, co, client>>

\* --------------------------------------------------- the protocol instance
\* GeminiProtocol after __init__: no instance attribute is set yet.  attrs is
\* the set of attributes that exist (reading another raises AttributeError);
\* transport is the sequence of calls made on self.transport, log the
\* messages this connection passed to server.log_message, hist the history
\* of calls on the response writer and of exceptions raised, environ the
\* dictionary build_environ last returned (the argument of self.app), and
\* peer_certificate what transport.getPeerCertificate() returns.
NewProtocol ==
    [attrs |-> {},
     client_addr |-> [host |-> <<>>, port |-> 0],
     peer_certificate |-> NoCertificate,
     request |-> [len |-> 0, head |-> <<>>],
     url |-> [len |-> 0, head |-> <<>>],
     environ |-> <<>>,
     status |-> 0,
     meta |-> <<>>,
     response_buffer |-> <<>>,
     response_size |-> 0,
     transport |-> <<>>,
     log |-> <<>>,
     hist |-> <<>>]

\* server.log_message(msg)
log_message(p, msg) == [p EXCEPT !.log = Append(@, msg)]

\* transport.write(data), called from `site`
transport_write(p, site, data) ==
    [p EXCEPT !.transport = Append(@, [op |-> "write", site |-> site, data |-> data])]

\* transport.loseConnection()
loseConnection(p) ==
    [p EXCEPT !.transport = Append(@, [op |-> "loseConnection", site |-> "handler", data |-> <<>>])]

\* an exception raised at `at` reaches the handler
Raised(p, at) ==
    [p EXCEPT !.hist = Append(@, [op |-> "raise", at |-> at,
                                  size |-> p.response_size, data |-> <<>>])]

\* parse_header with the length check off by one
parse_header_raises_off_by_one(p) ==
    \/ p.request.len > MAX_URL_LENGTH + 1
    \/ ~ decode(p.request.head).ok

\* GeminiProtocol.parse_header: the request line is rejected when it is
\* longer than 1024 bytes (ValueError) or is not UTF-8 (UnicodeDecodeError)
parse_header_raises(p) ==
    \/ p.request.len > MAX_URL_LENGTH
    \/ ~ decode(p.request.head).ok

\* self.url = self.request.decode(): the ASCII letters after the head decode
\* to themselves, one character each
parse_header(p) ==
    IF parse_header_raises(p) THEN Raised(p, "parse_header")
    ELSE LET text == decode(p.request.head).text
         IN [p EXCEPT !.url = [len |-> Len(text) + (p.request.len - Len(p.request.head)),
                               head |-> text],
                      !.attrs = @ \cup {"url"}]

\* write_status that keeps a status line already buffered
write_status_keeps_first(p, status, meta) ==
    [p EXCEPT !.status = status,
              !.meta = meta,
              !.attrs = @ \cup {"status", "meta"},
              !.response_buffer = IF @ = <<>> THEN StatusLine(status, meta) ELSE @,
              !.hist = Append(@, [op |-> "write_status", at |-> "",
                                  size |-> status, data |-> meta])]

\* GeminiProtocol.write_status
write_status(p, status, meta) ==
    [p EXCEPT !.status = status,
              !.meta = meta,
              !.attrs = @ \cup {"status", "meta"},
              !.response_buffer = StatusLine(status, meta),
              !.hist = Append(@, [op |-> "write_status", at |-> "",
                                  size |-> status, data |-> meta])]

\* flush_status without the `not self.response_size` guard
flush_status_unguarded(p) ==
    LET data == encode(p.response_buffer)
        q == IF p.response_buffer # <<>>
             THEN transport_write([p EXCEPT !.response_size = @ + Len(data)],
                                  "flush_status", data)
             ELSE p
    IN [q EXCEPT !.response_buffer = <<>>]

\* flush_status that writes the status line without counting its bytes
flush_status_uncounted(p) ==
    LET data == encode(p.response_buffer)
        q == IF p.response_buffer # <<>> /\ p.response_size = 0
             THEN transport_write(p, "flush_status", data)
             ELSE p
    IN [q EXCEPT !.response_buffer = <<>>]

\* GeminiProtocol.flush_status
flush_status(p) ==
    LET data == encode(p.response_buffer)
        q == IF p.response_buffer # <<>> /\ p.response_size = 0
             THEN transport_write([p EXCEPT !.response_size = @ + Len(data)],
                                  "flush_status", data)
             ELSE p
    IN [q EXCEPT !.response_buffer = <<>>]

\* write_body without its call of flush_status
write_body_no_flush(p, chunk) ==
    LET data == IF chunk.type = "str" THEN encode(chunk.v) ELSE chunk.v
        q == [p EXCEPT !.hist =
                 Append(@, [op |-> "write_body", at |-> chunk.type,
                            size |-> 0, data |-> chunk.v])]
    IN IF chunk.type \notin {"str", "bytes"} THEN Raised(q, "write_body")
       ELSE transport_write([q EXCEPT !.response_size = @ + Len(data)],
                            "write_body", data)

\* write_body that counts the characters of the chunk, not its encoded bytes
write_body_counts_chars(p, chunk) ==
    LET data == IF chunk.type = "str" THEN encode(chunk.v) ELSE chunk.v
        q == flush_status([p EXCEPT !.hist =
                 Append(@, [op |-> "write_body", at |-> chunk.type,
                            size |-> 0, data |-> chunk.v])])
    IN IF chunk.type \notin {"str", "bytes"} THEN Raised(q, "write_body")
       ELSE transport_write([q EXCEPT !.response_size = @ + Len(chunk.v)],
                            "write_body", data)

\* GeminiProtocol.write_body: len(data) raises TypeError, after the flush,
\* when the chunk is neither str nor bytes
write_body_raises(chunk) == chunk.type \notin {"str", "bytes"}

write_body(p, chunk) ==
    LET data == IF chunk.type = "str" THEN encode(chunk.v) ELSE chunk.v
        q == flush_status([p EXCEPT !.hist =
                 Append(@, [op |-> "write_body", at |-> chunk.type,
                            size |-> 0, data |-> chunk.v])])
    IN IF write_body_raises(chunk) THEN Raised(q, "write_body")
       ELSE transport_write([q EXCEPT !.response_size = @ + Len(data)],
                            "write_body", data)

\* urllib.parse.urlparse(url), not interpreted: each part is named by the
\* url it is a part of
urlparse(url) ==
    [path |-> [part |-> "path", of |-> url],
     query |-> [part |-> "query", of |-> url]]

\* dict.update
update(d, e) ==
    [k \in DOMAIN d \cup DOMAIN e |-> IF k \in DOMAIN e THEN e[k] ELSE d[k]]

\* the entries build_environ sets whether or not a certificate was presented
BaseEnviron(p) ==
    [GEMINI_URL |-> p.url,
     HOSTNAME |-> Server.hostname,
     PATH_INFO |-> urlparse(p.url).path,
     QUERY_STRING |-> urlparse(p.url).query,
     REMOTE_ADDR |-> p.client_addr.host,
     REMOTE_HOST |-> p.client_addr.host,
     SERVER_NAME |-> Server.hostname,
     SERVER_PORT |-> IntToStr(p.client_addr.port),
     SERVER_PROTOCOL |-> "GEMINI",
     SERVER_SOFTWARE |-> <<"jetforce", "__version__">>,
     client_certificate |-> NoneValue]

\* the entries build_environ adds for the peer certificate `cert`
CertificateEnviron(cert) ==
    [client_certificate |-> cert,
     AUTH_TYPE |-> "CERTIFICATE",
     REMOTE_USER |-> cert.common_name,
     TLS_CLIENT_HASH |-> cert.fingerprint,
     TLS_CLIENT_NOT_BEFORE |-> cert.not_before,
     TLS_CLIENT_NOT_AFTER |-> cert.not_after,
     TLS_CLIENT_SERIAL_NUMBER |-> cert.serial_number,
     TLS_CLIENT_VERIFIED |-> cert.verified,
     TLS_CIPHER |-> cert.cipher,
     TLS_VERSION |-> cert.version]

\* build_environ that always has the identity entries, None without a
\* certificate
build_environ_null_identity(p, cert) ==
    IF cert.present THEN update(BaseEnviron(p), CertificateEnviron(cert))
    ELSE update(BaseEnviron(p),
                [k \in DOMAIN CertificateEnviron(ClientCertificate) |-> NoneValue])

\* GeminiProtocol.build_environ raises what inspect_certificate raises
build_environ_raises(cert) == cert.present /\ ~ cert.inspects

\* GeminiProtocol.build_environ
build_environ(p, cert) ==
    IF cert.present THEN update(BaseEnviron(p), CertificateEnviron(cert))
    ELSE BaseEnviron(p)

\* log_request that reads an attribute that was never set as its default
log_request_unguarded(p) ==
    log_message(p, [kind |-> "access", url |-> p.url, status |-> p.status,
                    meta |-> p.meta, size |-> p.response_size])

\* GeminiProtocol.log_request: the AttributeError of a missing attribute is
\* swallowed and nothing is logged
log_request(p) ==
    IF {"client_addr", "connected_timestamp", "url", "status", "meta",
        "response_size"} \subseteq p.attrs
    THEN log_message(p, [kind |-> "access", url |-> p.url, status |-> p.status,
                         meta |-> p.meta, size |-> p.response_size])
    ELSE p

\* server.log_message(traceback.format_exc())
log_traceback(p) ==
    log_message(p, [kind |-> "traceback", url |-> NewProtocol.url, status |-> 0,
                    meta |-> <<>>, size |-> 0])

\* _handle_request_noblock, the handler of a malformed request (lines 91-97)
malformed_request(p) ==
    loseConnection(flush_status(
        write_status(log_traceback(p), BAD_REQUEST, MALFORMED_REQUEST)))

\* `except Exception` that logs the traceback and writes no status
except_clause_log_only(p) == log_traceback(p)

\* _handle_request_noblock, `except Exception` (lines 110-112)
except_clause(p) ==
    write_status(log_traceback(p), CGI_ERROR, UNEXPECTED_ERROR)

\* `finally` without its call of log_request
finally_clause_no_log(p) == loseConnection(flush_status(p))

\* `finally` that closes the transport before it flushes the status
finally_clause_close_first(p) == log_request(flush_status(loseConnection(p)))

\* `finally` that leaves the transport open
finally_clause_no_close(p) == log_request(flush_status(p))

\* _handle_request_noblock, `finally` (lines 113-116)
finally_clause(p) ==
    loseConnection(log_request(flush_status(p)))

\* ------------------------------------------------ coroutines and the pool
NoResult == [kind |-> "none", chunk |-> NoneValue]

\* a handler that has not started: no line has been received for it
IdleHandler ==
    [pc |-> "idle", call |-> "none", task |-> "none", thread |-> "none",
     res |-> NoResult]

\* the coroutine has returned (pc "done") or raised (pc "failed")
Finished(pc) ==
    [pc |-> pc, call |-> "none", task |-> "none", thread |-> "none",
     res |-> NoResult]

\* the call made directly, on the reactor thread, instead of deferToThread
call_on_reactor(call) ==
    [pc |-> "await", call |-> call, task |-> "running", thread |-> "reactor",
     res |-> NoResult]

\* `await deferToThread(call)`: the call is queued for a pool thread and the
\* coroutine is suspended until its result is delivered to the reactor
deferToThread(call) ==
    [pc |-> "await", call |-> call, task |-> "queued", thread |-> "pool",
     res |-> NoResult]

\* the reactor thread is free to run a callback: no application code runs on it
LoopFree ==
    \A c \in Conns, h \in Handlers :
        ~ (co[c][h].thread = "reactor" /\ co[c][h].task \in {"running", "hung"})

\* pool threads occupied by application code
BusyWorkers ==
    Cardinality({ch \in Conns \X Handlers :
        /\ co[ch[1]][ch[2]].thread = "pool"
        /\ co[ch[1]][ch[2]].task \in {"running", "hung"}})

\* number of calls of kind `op` recorded in a history
RECURSIVE Count(_, _)
Count(hist, op) ==
    IF hist = <<>> THEN 0
    ELSE (IF Head(hist).op = op THEN 1 ELSE 0) + Count(Tail(hist), op)

\* LineOnlyReceiver disregards lines once the transport is disconnecting
Disconnecting(p) ==
    \E i \in 1..Len(p.transport) : p.transport[i].op = "loseConnection"

\* the handler the next received line starts
NextHandler(c) ==
    CHOOSE h \in Handlers :
        /\ co[c][h].pc = "idle"
        /\ \A g \in Handlers : g < h => co[c][g].pc # "idle"

Init ==
    /\ conn = [c \in Conns |-> NewProtocol]
    /\ co = [c \in Conns |-> [h \in Handlers |-> IdleHandler]]
    /\ client = [c \in Conns |-> 1]

\* the protocol instance after connectionMade, on the transport of
\* connection c whose TLS handshake gave the peer certificate cert
Accepted(p, c, cert) ==
    [p EXCEPT !.attrs = {"connected_timestamp", "response_size",
                         "response_buffer", "client_addr"},
              !.response_size = 0,
              !.response_buffer = <<>>,
              !.client_addr = getPeer(c),
              !.peer_certificate = cert]

\* GeminiProtocol.connectionMade
connectionMade(c, cert) ==
    /\ conn[c].attrs = {}
    /\ LoopFree
    /\ conn' = [conn EXCEPT ![c] = Accepted(@, c, cert)]
    /\ UNCHANGED <<co, client>>

\* GeminiProtocol.lineReceived: the coroutine runs on the reactor up to its
\* first await (or to its end)
lineReceived(c, request) ==
    /\ "response_size" \in conn[c].attrs
    /\ client[c] > 0
    /\ ~ Disconnecting(conn[c])
    /\ LoopFree
    /\ \E h \in Handlers : co[c][h].pc = "idle"
    /\ LET h == NextHandler(c)
           cert == conn[c].peer_certificate
           p0 == [conn[c] EXCEPT !.request = request,
                                 !.attrs = @ \cup {"request"}]
           p1 == parse_header(p0)
       IN IF parse_header_raises(p0)
          THEN /\ conn' = [conn EXCEPT ![c] = malformed_request(p1)]
               /\ co' = [co EXCEPT ![c][h] = Finished("failed")]
          ELSE IF build_environ_raises(cert)
          THEN /\ conn' = [conn EXCEPT ![c] =
                      finally_clause(except_clause(Raised(p1, "build_environ")))]
               /\ co' = [co EXCEPT ![c][h] = Finished("done")]
          ELSE /\ conn' = [conn EXCEPT ![c] =
                      [p1 EXCEPT !.environ = build_environ(p1, cert)]]
               /\ co' = [co EXCEPT ![c][h] = deferToThread("app")]
    /\ client' = [client EXCEPT ![c] = @ - 1]

\* a pool thread takes the queued call
WorkerStart(c, h) ==
    /\ co[c][h].task = "queued"
    /\ BusyWorkers < PoolSize
    /\ co' = [co EXCEPT ![c][h].task = "running"]
    /\ UNCHANGED <<conn, client>>

\* the application code, in its thread, calls write_status(status, meta)
AppWriteStatus(c, h, s) ==
    /\ co[c][h].task = "running"
    /\ Count(conn[c].hist, "write_status") < MaxStatusCalls
    /\ conn' = [conn EXCEPT ![c] = write_status(@, s.status, s.meta)]
    /\ UNCHANGED <<co, client>>

\* self.app(environ, self.write_status) returns the response generator
AppReturn(c, h) ==
    /\ co[c][h].task = "running"
    /\ co[c][h].call = "app"
    /\ co' = [co EXCEPT ![c][h].task = "returned",
                        ![c][h].res = [kind |-> "generator", chunk |-> NoneValue]]
    /\ UNCHANGED <<conn, client>>

\* the application call, or the generator's __next__, raises an Exception
AppRaise(c, h) ==
    /\ co[c][h].task = "running"
    /\ co' = [co EXCEPT ![c][h].task = "returned",
                        ![c][h].res = [kind |-> "raise", chunk |-> NoneValue]]
    /\ UNCHANGED <<conn, client>>

\* response_generator.__next__() yields a chunk
AppYield(c, h, chunk) ==
    /\ co[c][h].task = "running"
    /\ co[c][h].call = "next"
    /\ Count(conn[c].hist, "write_body") < MaxChunks
    /\ co' = [co EXCEPT ![c][h].task = "returned",
                        ![c][h].res = [kind |-> "chunk", chunk |-> chunk]]
    /\ UNCHANGED <<conn, client>>

\* response_generator.__next__() raises StopIteration
AppStop(c, h) ==
    /\ co[c][h].task = "running"
    /\ co[c][h].call = "next"
    /\ co' = [co EXCEPT ![c][h].task = "returned",
                        ![c][h].res = [kind |-> "stop", chunk |-> NoneValue]]
    /\ UNCHANGED <<conn, client>>

\* the application code blocks forever
AppHang(c, h) ==
    /\ co[c][h].task = "running"
    /\ co' = [co EXCEPT ![c][h].task = "hung"]
    /\ UNCHANGED <<conn, client>>

\* the coroutine resumes with the generator and awaits its first chunk
ResumeGenerator(c, h) ==
    /\ co[c][h].task = "returned"
    /\ co[c][h].res.kind = "generator"
    /\ LoopFree
    /\ co' = [co EXCEPT ![c][h] = deferToThread("next")]
    /\ UNCHANGED <<conn, client>>

\* the coroutine resumes with a chunk: write_body, then await the next one
ResumeChunk(c, h) ==
    /\ co[c][h].task = "returned"
    /\ co[c][h].res.kind = "chunk"
    /\ LoopFree
    /\ LET chunk == co[c][h].res.chunk
           q == write_body(conn[c], chunk)
       IN IF write_body_raises(chunk)
          THEN /\ conn' = [conn EXCEPT ![c] = finally_clause(except_clause(q))]
               /\ co' = [co EXCEPT ![c][h] = Finished("done")]
          ELSE /\ conn' = [conn EXCEPT ![c] = q]
               /\ co' = [co EXCEPT ![c][h] = deferToThread("next")]
    /\ UNCHANGED client

\* the coroutine resumes with StopIteration: break, then finally
ResumeStop(c, h) ==
    /\ co[c][h].task = "returned"
    /\ co[c][h].res.kind = "stop"
    /\ LoopFree
    /\ conn' = [conn EXCEPT ![c] = finally_clause(@)]
    /\ co' = [co EXCEPT ![c][h] = Finished("done")]
    /\ UNCHANGED client

\* the coroutine resumes with an exception: except, then finally
ResumeRaise(c, h) ==
    /\ co[c][h].task = "returned"
    /\ co[c][h].res.kind = "raise"
    /\ LoopFree
    /\ conn' = [conn EXCEPT ![c] =
           finally_clause(except_clause(Raised(@, co[c][h].call)))]
    /\ co' = [co EXCEPT ![c][h] = Finished("done")]
    /\ UNCHANGED client

\* every step of connection c, with the application's outputs drawn from
\* the given sets
ConnNext(c, requests, statuses, chunks) ==
    \/ \E cert \in PeerCertificates : connectionMade(c, cert)
    \/ \E r \in requests : lineReceived(c, r)
    \/ \E h \in Handlers :
        \/ WorkerStart(c, h)
        \/ \E s \in statuses : AppWriteStatus(c, h, s)
        \/ AppReturn(c, h)
        \/ AppRaise(c, h)
        \/ \E d \in chunks : AppYield(c, h, d)
        \/ AppStop(c, h)
        \/ AppHang(c, h)
        \/ ResumeGenerator(c, h)
        \/ ResumeChunk(c, h)
        \/ ResumeStop(c, h)
        \/ ResumeRaise(c, h)

\* one connection, served alone, with any application behaviour
Next == ConnNext(1, Requests, AppStatuses, Chunks)

Spec == Init /\ [][Next]_vars

\* all connections, served together by one reactor and its thread pool.
\* The applications are reduced to what scheduling depends on: a request
\* line that parses or one that does not, an application call and chunk
\* pulls that return, raise or block, at most PoolMaxChunks chunks of one
\* value, no write_status call, and no client certificate.
PoolRequests ==
    {[len |-> 21, head |-> UTF8_HEAD], [len |-> MAX_URL_LENGTH + 1, head |-> UTF8_HEAD]}
PoolChunks == {Bytes(<<0>>)}

PoolYield(c, h) ==
    /\ Count(conn[c].hist, "write_body") < PoolMaxChunks
    /\ \E d \in PoolChunks : AppYield(c, h, d)

\* the application code running in a thread either ends its call or blocks
\* forever
AppEnds(c, h) ==
    \/ AppReturn(c, h)
    \/ AppRaise(c, h)
    \/ PoolYield(c, h)
    \/ AppStop(c, h)
    \/ AppHang(c, h)

PoolLine(c) == \E r \in PoolRequests : lineReceived(c, r)

\* a step of the reactor or of a pool thread for connection c
PoolStep(c) ==
    \/ connectionMade(c, NoCertificate)
    \/ PoolLine(c)
    \/ \E h \in Handlers :
        \/ WorkerStart(c, h)
        \/ AppEnds(c, h)
        \/ ResumeGenerator(c, h)
        \/ ResumeChunk(c, h)
        \/ ResumeStop(c, h)
        \/ ResumeRaise(c, h)

NextPool == \E c \in Conns : PoolStep(c)

\* The peer sends its request line, the reactor runs every callback that is
\* ready, and the pool's queue is first in, first out, so a queued call is
\* started once a thread is free.  A connection has one step to take at a
\* time, so this is fairness of each of its steps.
Fairness == \A c \in Conns : SF_vars(PoolStep(c))

SpecPool == Init /\ [][NextPool]_vars

SpecPoolFair == SpecPool /\ Fairness

\* one connection whose client sends up to MaxLines request lines, with the
\* reduced application of PoolStep
InitLines ==
    /\ conn = [c \in Conns |-> NewProtocol]
    /\ co = [c \in Conns |-> [h \in Handlers |-> IdleHandler]]
    /\ client = [c \in Conns |-> MaxLines]

NextLines == PoolStep(1)

SpecLines == InitLines /\ [][NextLines]_vars

\* One connection whose application code always ends what it is called for:
\* the application call returns or raises, and every chunk pull yields,
\* raises or finds the generator exhausted (after MaxChunks chunks at most).
AppCompletes(c, h) ==
    \/ AppReturn(c, h)
    \/ AppRaise(c, h)
    \/ \E d \in Chunks \ {Str(<<>>)} : AppYield(c, h, d)
    \/ AppStop(c, h)

\* the coroutine is resumed with the result of its call
Resume(c, h) ==
    \/ ResumeGenerator(c, h)
    \/ ResumeChunk(c, h)
    \/ ResumeStop(c, h)
    \/ ResumeRaise(c, h)

LiveStep(c) ==
    \/ connectionMade(c, NoCertificate)
    \/ PoolLine(c)
    \/ \E h \in Handlers :
        \/ WorkerStart(c, h)
        \/ \E s \in AppStatuses : AppWriteStatus(c, h, s)
        \/ AppCompletes(c, h)
        \/ Resume(c, h)

NextLive == LiveStep(1)

\* the pool starts a queued call once a thread is free, the application code
\* ends its call, and the reactor delivers a result to the waiting coroutine
FairScheduling ==
    \A h \in Handlers :
        /\ WF_vars(WorkerStart(1, h))
        /\ WF_vars(AppCompletes(1, h))
        /\ WF_vars(Resume(1, h))

SpecLive == Init /\ [][NextLive]_vars /\ FairScheduling

\* log_request called on its own, on a connection in any of the states its
\* attributes can be in: accepted; a request line received, parsed or not;
\* a status set by the application or by the handler, or none.
LogStatuses ==
    AppStatuses \cup {[status |-> BAD_REQUEST, meta |-> MALFORMED_REQUEST],
                      [status |-> CGI_ERROR, meta |-> UNEXPECTED_ERROR]}

LogInputs(c) ==
    LET accepted == Accepted(NewProtocol, c, NoCertificate)
        received == {accepted} \cup
            {parse_header([accepted EXCEPT !.request = r,
                                           !.attrs = @ \cup {"request"}]) :
                 r \in Requests}
    IN received \cup
           {write_status(p, s.status, s.meta) : p \in received, s \in LogStatuses}

InitLog ==
    /\ conn \in {[c \in Conns |-> IF c = 1 THEN p ELSE NewProtocol] :
                     p \in LogInputs(1)}
    /\ co = [c \in Conns |-> [h \in Handlers |-> IdleHandler]]
    /\ client = [c \in Conns |-> 0]

\* self.log_request()
CallLogRequest(c) ==
    /\ co[c][1].pc = "idle"
    /\ conn' = [conn EXCEPT ![c] = log_request(@)]
    /\ co' = [co EXCEPT ![c][1] = Finished("done")]
    /\ UNCHANGED client

NextLog == CallLogRequest(1)

SpecLog == InitLog /\ [][NextLog]_vars

\* ------------------------------------------------------------ observations
RECURSIVE Concat(_)
Concat(seqs) ==
    IF seqs = <<>> THEN <<>> ELSE Head(seqs) \o Concat(Tail(seqs))

\* the bytes handed to the transport, in order
Wire(p) == Concat([i \in 1..Len(p.transport) |-> p.transport[i].data])

\* positions in the transport's call sequence
StatusWrites(p) ==
    {i \in 1..Len(p.transport) : p.transport[i].site = "flush_status"}
BodyWrites(p) ==
    {i \in 1..Len(p.transport) : p.transport[i].site = "write_body"}
Closes(p) ==
    {i \in 1..Len(p.transport) : p.transport[i].op = "loseConnection"}

\* positions in the history of the calls of kind `op`
Calls(p, op) == {i \in 1..Len(p.hist) : p.hist[i].op = op}

\* write_status was called before the first write_body call
StatusBeforeFirstBody(p) ==
    \E j \in Calls(p, "write_body") :
        /\ \A k \in Calls(p, "write_body") : j <= k
        /\ \E i \in Calls(p, "write_status") : i < j

\* the status line buffered by the last write_status before position j
LastStatusLineBefore(p, j) ==
    LET i == CHOOSE i \in Calls(p, "write_status") :
                 /\ i < j
                 /\ \A k \in Calls(p, "write_status") : k < j => k <= i
    IN encode(StatusLine(p.hist[i].size, p.hist[i].data))

\* the bytes of the chunk passed to the write_body call at position i
ChunkBytes(p, i) ==
    IF p.hist[i].at = "str" THEN encode(p.hist[i].data) ELSE p.hist[i].data

\* C1: on a connection where write_status was called before the first
\* write_body call, exactly one status line is ever written to the transport
\* and it is written before every body write.
C1_OneStatusLineFirst ==
    \A c \in Conns :
        StatusBeforeFirstBody(conn[c]) =>
            /\ Cardinality(StatusWrites(conn[c])) = 1
            /\ \A i \in StatusWrites(conn[c]), j \in BodyWrites(conn[c]) : i < j

\* C1 witness: a write_status, a write_body, a later write_status and another
\* write_body have been made, and the handler has finished.
C1_Witness ==
    /\ co[1][1].pc = "done"
    /\ StatusBeforeFirstBody(conn[1])
    /\ Cardinality(BodyWrites(conn[1])) >= 2
    /\ \E i \in Calls(conn[1], "write_body"), j \in Calls(conn[1], "write_status") :
           i < j

\* C2 (the claim as stated): response_size > 0 implies that a status line has
\* been written to the transport, before the first body write.
C2_SizeImpliesStatusSent ==
    \A c \in Conns :
        conn[c].response_size > 0 =>
            /\ StatusWrites(conn[c]) # {}
            /\ \A i \in StatusWrites(conn[c]), j \in BodyWrites(conn[c]) :
                   conn[c].transport[j].data # <<>> => i < j

\* at least one byte has been handed to the transport
BytesWritten(p) == Wire(p) # <<>>

\* C3 (the claim as stated): once write_body has been called, no later step
\* writes a status line to the transport.
C3_NoStatusAfterAnyBody ==
    [][\A c \in Conns :
          Calls(conn[c], "write_body") # {} =>
              StatusWrites(conn'[c]) = StatusWrites(conn[c])]_vars

\* C3 (amended): once write_body has been called and at least one byte has
\* been written to the transport, no later step writes a status line, and
\* every later flush (each step that uses the transport) leaves the pending
\* line cleared.
C3_NoStatusAfterBytes ==
    [][\A c \in Conns :
          (Calls(conn[c], "write_body") # {} /\ BytesWritten(conn[c])) =>
              /\ StatusWrites(conn'[c]) = StatusWrites(conn[c])
              /\ conn'[c].transport # conn[c].transport =>
                     conn'[c].response_buffer = <<>>]_vars

\* C3 witness: the application called write_status after a write_body that
\* left bytes on the transport, and the handler then flushed and finished
\* without any exception.
C3_Witness ==
    /\ co[1][1].pc = "done"
    /\ Calls(conn[1], "raise") = {}
    /\ BytesWritten(conn[1])
    /\ conn[1].response_buffer = <<>>
    /\ \E i \in Calls(conn[1], "write_body"), j \in Calls(conn[1], "write_status") :
           /\ i < j
           /\ \A k \in Calls(conn[1], "write_body") : k < j

\* the transport calls of a connection that answers with one status line only
StatusOnly(status, meta) ==
    << [op |-> "write", site |-> "flush_status",
        data |-> encode(StatusLine(status, meta))],
       [op |-> "loseConnection", site |-> "handler", data |-> <<>>] >>

\* C4: a request line longer than 1024 bytes fails to parse, the application
\* is never called for it, and the transport receives exactly the
\* BAD_REQUEST "Malformed request" status line and is then closed.
C4_LongLineRejected ==
    \A c \in Conns :
        ("request" \in conn[c].attrs /\ conn[c].request.len > MAX_URL_LENGTH) =>
            /\ co[c][1].pc = "failed"
            /\ "url" \notin conn[c].attrs
            /\ Calls(conn[c], "write_body") = {}
            /\ conn[c].hist[1] = [op |-> "raise", at |-> "parse_header",
                                  size |-> 0, data |-> <<>>]
            /\ conn[c].transport = StatusOnly(BAD_REQUEST, MALFORMED_REQUEST)
            /\ Wire(conn[c]) = IntToStr(BAD_REQUEST) \o <<9>>
                                   \o MALFORMED_REQUEST \o <<13, 10>>

\* C4 witness: a line of 1025 bytes of valid UTF-8 has been received.
C4_Witness ==
    /\ "request" \in conn[1].attrs
    /\ conn[1].request = [len |-> MAX_URL_LENGTH + 1, head |-> UTF8_HEAD]
    /\ Closes(conn[1]) # {}

\* positions in the history of the exceptions raised at one of `places`
RaisedAt(p, places) ==
    {i \in Calls(p, "raise") : p.hist[i].at \in places}

\* C5: an exception raised by build_environ, the application call or a chunk
\* pull while no byte has been written is caught (the coroutine returns), and
\* the transport receives exactly the CGI_ERROR status line and is closed.
C5_ErrorBeforeBytes ==
    \A c \in Conns :
        \A i \in RaisedAt(conn[c], {"build_environ", "app", "next"}) :
            conn[c].hist[i].size = 0 =>
                /\ co[c][1].pc = "done"
                /\ Wire(conn[c]) = encode(StatusLine(CGI_ERROR, UNEXPECTED_ERROR))
                /\ BodyWrites(conn[c]) = {} \/
                       \A j \in BodyWrites(conn[c]) : conn[c].transport[j].data = <<>>
                /\ conn[c].transport[Len(conn[c].transport)].op = "loseConnection"

\* C5 witness: the application buffered a status with write_status and a
\* chunk pull then raised before any byte was written.
C5_Witness ==
    /\ \E i \in RaisedAt(conn[1], {"next"}) :
           /\ conn[1].hist[i].size = 0
           /\ \E j \in Calls(conn[1], "write_status") : j < i
    /\ co[1][1].pc = "done"

\* the bytes of the chunks passed to write_body before history position n
RECURSIVE ChunksBefore(_, _)
ChunksBefore(p, n) ==
    IF n <= 1 THEN <<>>
    ELSE ChunksBefore(p, n - 1) \o
             (IF p.hist[n - 1].op = "write_body" THEN ChunkBytes(p, n - 1) ELSE <<>>)

\* the status line that the first write_body call flushes, if one is buffered
FirstStatusLine(p) ==
    IF StatusBeforeFirstBody(p)
    THEN LastStatusLineBefore(p,
             CHOOSE j \in Calls(p, "write_body") :
                 \A k \in Calls(p, "write_body") : j <= k)
    ELSE <<>>

\* the traceback of an exception was passed to server.log_message
TracebackLogged(p) ==
    \E i \in 1..Len(p.log) : p.log[i].kind = "traceback"

\* C6 (the claim as stated): an exception raised while streaming, after at
\* least one chunk was written with write_body, leaves on the transport
\* exactly the status line and the chunks written before it.
C6_ErrorAfterChunk ==
    \A c \in Conns :
        \A i \in RaisedAt(conn[c], {"next", "write_body"}) :
            (\E j \in Calls(conn[c], "write_body") :
                 j < i /\ ~ (conn[c].hist[i].at = "write_body" /\ j = i - 1)) =>
                /\ StatusWrites(conn[c]) = {1}
                /\ Len(Wire(conn[c])) = conn[c].hist[i].size
                /\ Wire(conn[c]) = FirstStatusLine(conn[c]) \o ChunksBefore(conn[c], i)

\* the status-line bytes written to the transport
FlushedStatus(p) ==
    Concat([k \in 1..Len(p.transport) |->
               IF p.transport[k].site = "flush_status"
               THEN p.transport[k].data ELSE <<>>])

\* C6 (amended): an exception raised while streaming, after at least one
\* byte was written to the transport, leaves on the transport exactly the
\* bytes written before it (at most one status line, buffered by a
\* write_status call made before the exception, and the chunks); the
\* traceback is logged and the transport closed.
C6_ErrorAfterBytes ==
    \A c \in Conns :
        \A i \in RaisedAt(conn[c], {"next", "write_body"}) :
            conn[c].hist[i].size > 0 =>
                /\ co[c][1].pc = "done"
                /\ Len(Wire(conn[c])) = conn[c].hist[i].size
                /\ Wire(conn[c]) = FlushedStatus(conn[c]) \o ChunksBefore(conn[c], i)
                /\ Cardinality(StatusWrites(conn[c])) <= 1
                /\ \A k \in StatusWrites(conn[c]) :
                       \E j \in Calls(conn[c], "write_status") :
                           /\ j < i
                           /\ conn[c].transport[k].data =
                                  encode(StatusLine(conn[c].hist[j].size,
                                                    conn[c].hist[j].data))
                /\ TracebackLogged(conn[c])
                /\ Closes(conn[c]) = {Len(conn[c].transport)}

\* C6 witness: a status line and a non-empty chunk were written, and the
\* next pull raised.
C6_Witness ==
    \E i \in RaisedAt(conn[1], {"next"}) :
        /\ StatusWrites(conn[1]) # {}
        /\ \E j \in BodyWrites(conn[1]) : conn[1].transport[j].data # <<>>
        /\ conn[1].hist[i].size > 0

\* the access-log lines this connection passed to server.log_message
AccessLines(p) == {i \in 1..Len(p.log) : p.log[i].kind = "access"}

\* the handler of connection c's request line has finished
HandlerFinished(c) == co[c][1].pc \in {"done", "failed"}

\* C7 (the claim as stated): when the handler of a request line has finished,
\* on whichever path, exactly one access-log line has been emitted.
C7_OneAccessLineAlways ==
    \A c \in Conns :
        HandlerFinished(c) => Cardinality(AccessLines(conn[c])) = 1

\* C7 (amended): no access-log line is emitted before the handler finishes
\* nor when the request line fails to parse; a handler that ends after an
\* application exception has emitted exactly one; a handler that ends
\* normally has emitted exactly one if write_status was ever called and none
\* otherwise.
C7_AccessLinePerPath ==
    \A c \in Conns :
        LET p == conn[c]
            n == Cardinality(AccessLines(p))
        IN /\ n <= 1
           /\ co[c][1].pc # "done" => n = 0
           /\ (co[c][1].pc = "done" /\ Calls(p, "raise") # {}) => n = 1
           /\ co[c][1].pc = "done" =>
                  n = (IF Calls(p, "write_status") # {} THEN 1 ELSE 0)

\* C7 witness: the application set a status and produced a chunk, nothing was
\* raised, and the handler finished with its access-log line emitted.
C7_Witness ==
    /\ co[1][1].pc = "done"
    /\ Calls(conn[1], "raise") = {}
    /\ BodyWrites(conn[1]) # {}
    /\ Cardinality(AccessLines(conn[1])) = 1

\* C8: the transport is closed only by the finishing handler, exactly once,
\* as the last call on the transport (so nothing is written after it), with
\* the pending status line flushed and the buffer empty.
C8_ClosedOnceLast ==
    \A c \in Conns :
        LET p == conn[c]
        IN /\ Cardinality(Closes(p)) <= 1
           /\ ~ HandlerFinished(c) => Closes(p) = {}
           /\ HandlerFinished(c) =>
                  /\ Closes(p) = {Len(p.transport)}
                  /\ p.response_buffer = <<>>
                  /\ (Calls(p, "write_status") # {}) => BytesWritten(p)

\* C8 witness: the application buffered a status and produced no chunk, so
\* the handler's own flush wrote the status line just before the close.
C8_Witness ==
    /\ co[1][1].pc = "done"
    /\ Calls(conn[1], "raise") = {}
    /\ Calls(conn[1], "write_body") = {}
    /\ StatusWrites(conn[1]) = {1}
    /\ Closes(conn[1]) = {2}

\* the application set a status before its first chunk (or, having produced
\* no chunk, at all)
StatusSetBeforeChunks(p) ==
    IF Calls(p, "write_body") = {} THEN Calls(p, "write_status") # {}
    ELSE StatusBeforeFirstBody(p)

\* the history position of the first write_body call, or the end of history
FirstBodyOrEnd(p) ==
    IF Calls(p, "write_body") = {} THEN Len(p.hist) + 1
    ELSE CHOOSE j \in Calls(p, "write_body") :
             \A k \in Calls(p, "write_body") : j <= k

\* C10: when the request parsed, the application set a status before its
\* first chunk and nothing was raised, the transport has received, at the
\* close, the status line of the last write_status made before the first
\* chunk followed by the encoded chunks in the order they were yielded: one
\* status write, then one body write per chunk, then the close.
C10_StatusThenChunksInOrder ==
    \A c \in Conns :
        LET p == conn[c]
        IN (co[c][1].pc = "done" /\ Calls(p, "raise") = {}
               /\ StatusSetBeforeChunks(p)) =>
              /\ Wire(p) = LastStatusLineBefore(p, FirstBodyOrEnd(p))
                               \o ChunksBefore(p, Len(p.hist) + 1)
              /\ StatusWrites(p) = {1}
              /\ Cardinality(BodyWrites(p)) = Cardinality(Calls(p, "write_body"))
              /\ Closes(p) = {Len(p.transport)}

\* C10 witness: two different statuses were set before the first chunk and
\* two different non-empty chunks were produced.
C10_Witness ==
    /\ co[1][1].pc = "done"
    /\ Calls(conn[1], "raise") = {}
    /\ \E i, j \in Calls(conn[1], "write_status") :
           /\ i < j
           /\ j < FirstBodyOrEnd(conn[1])
           /\ conn[1].hist[i].size # conn[1].hist[j].size
    /\ \E i, j \in BodyWrites(conn[1]) :
           /\ i < j
           /\ conn[1].transport[i].data # <<>>
           /\ conn[1].transport[j].data # <<>>
           /\ conn[1].transport[i].data # conn[1].transport[j].data

\* the application code of connection c blocks forever
Hung(c) == \E h \in Handlers : co[c][h].task = "hung"

\* every pool thread is held by application code that blocks forever
PoolExhausted ==
    Cardinality({ch \in Conns \X Handlers :
        /\ co[ch[1]][ch[2]].thread = "pool"
        /\ co[ch[1]][ch[2]].task = "hung"}) >= PoolSize

\* the handler of connection c has closed its transport
Closed(c) == Closes(conn[c]) # {}

\* the call of connection c waits in the pool's queue and no thread is free
Starved(c) ==
    /\ \E h \in Handlers : co[c][h].task = "queued"
    /\ BusyWorkers >= PoolSize

\* C9: whatever the other connections' application code does, blocking
\* forever included, a connection that is not yet closed, whose own
\* application code is not blocked and for whose call a pool thread is free
\* can always take its next step (be accepted, parsed, dispatched, streamed,
\* closed).
C9_BlockedAppStallsNoOther ==
    \A c \in Conns :
        (~ Closed(c) /\ ~ Hung(c) /\ ~ Starved(c)) => ENABLED PoolStep(c)

\* C9, as progress under SpecPoolFair: every connection is eventually closed
\* by its handler, unless its own application code blocks forever or no
\* pool thread is left for it.
C9_EventuallyClosed ==
    \A c \in Conns : <>(Closed(c) \/ Hung(c) \/ PoolExhausted)

\* C9 witness: the application code of connection 1 blocks, and connection 2
\* has been parsed, dispatched, streamed and closed.
C9_Witness ==
    /\ Hung(1)
    /\ co[2][1].pc = "done"
    /\ BodyWrites(conn[2]) # {}
    /\ Closes(conn[2]) # {}

\* the sum of the encoded byte lengths of the payloads of all write_body calls
BodyBytesSum(p) == Len(ChunksBefore(p, Len(p.hist) + 1))

C12_StatusFrozenOnceFlushed ==
    /\ [][\A c \in Conns :
             StatusWrites(conn[c]) # {} =>
                 /\ conn'[c].status = conn[c].status
                 /\ conn'[c].meta = conn[c].meta]_vars
    /\ [](\A c \in Conns :
             \A i \in AccessLines(conn[c]) :
                 StatusWrites(conn[c]) # {} =>
                     FlushedStatus(conn[c]) =
                         encode(StatusLine(conn[c].log[i].status,
                                           conn[c].log[i].meta)))

\* C20: in every reachable state response_size equals the number of bytes
\* handed to the transport (status-line bytes and body bytes); it starts at 0
\* and no step decreases it; the byte count of an access-log line is the
\* number of bytes written when the line is emitted.
C20_SizeIsBytesWritten ==
    /\ \A c \in Conns : conn[c].response_size = 0
    /\ [](\A c \in Conns : conn[c].response_size = Len(Wire(conn[c])))
    /\ [][\A c \in Conns :
             /\ conn'[c].response_size >= conn[c].response_size
             /\ \A i \in AccessLines(conn'[c]) \ AccessLines(conn[c]) :
                    conn'[c].log[i].size = Len(Wire(conn'[c]))]_vars

\* C20 witness: a status line and a non-empty chunk were written and the
\* access-log line was emitted.
C20_Witness ==
    /\ StatusWrites(conn[1]) # {}
    /\ \E j \in BodyWrites(conn[1]) : conn[1].transport[j].data # <<>>
    /\ AccessLines(conn[1]) # {}
    /\ conn[1].response_size > Len(FlushedStatus(conn[1]))

\* the handlers of connection c that a received line has started
Started(c) == {h \in Handlers : co[c][h].pc # "idle"}

\* the handlers of connection c that are suspended in an await
Active(c) == {h \in Handlers : co[c][h].pc = "await"}

\* the handlers of connection c that built the context and called the
\* application (every handler past parse_header, build_environ not raising)
Dispatched(c) ==
    {h \in Handlers : co[c][h].pc = "await" \/
         (co[c][h].pc = "done" /\ RaisedAt(conn[c], {"build_environ"}) = {})}

\* C13 (the claim as stated): however many lines the client sends on one
\* connection, at most one line starts a handler (the request line is set
\* once), the application is invoked at most once, and at most one handler
\* is active at any time.
C13_OneRequestPerConnection ==
    \A c \in Conns :
        /\ Cardinality(Started(c)) <= 1
        /\ Cardinality(Dispatched(c)) <= 1
        /\ Cardinality(Active(c)) <= 1

\* texts of up to three of the characters "/", "g", "¯", "À", "é", "ÿ"
Texts == UNION {[1..n -> {47, 103, 175, 192, 233, 255}] : n \in 0..3}

\* the heads that are the UTF-8 encoding of some text
Utf8Heads == {h \in Heads : \E t \in Texts : encode(t) = h}

\* C14: parse_header succeeds exactly when the request line has at most 1024
\* bytes and is the UTF-8 encoding of a text (otherwise it raises and the
\* handler fails); on success url is that text, which encodes back to the
\* request line byte for byte, and on failure url is not set.
C14_ParseHeaderAcceptsUtf8UpToLimit ==
    \A c \in Conns :
        "request" \in conn[c].attrs =>
            LET p == conn[c]
                accepted == /\ p.request.len <= MAX_URL_LENGTH
                            /\ p.request.head \in Utf8Heads
            IN /\ "url" \in p.attrs <=> accepted
               /\ RaisedAt(p, {"parse_header"}) # {} <=> ~ accepted
               /\ co[c][1].pc = "failed" <=> ~ accepted
               /\ "url" \in p.attrs =>
                      /\ encode(p.url.head) = p.request.head
                      /\ p.url.len - Len(p.url.head) =
                             p.request.len - Len(p.request.head)

\* C14 witness: a line of exactly 1024 bytes with a two-byte character has
\* been accepted, its url one character shorter than the line.
C14_Witness ==
    /\ "url" \in conn[1].attrs
    /\ conn[1].request.len = MAX_URL_LENGTH
    /\ conn[1].url.len = MAX_URL_LENGTH - 1
    /\ conn[1].url.head = <<103, 233>>

\* the entries of the context that identify the client by its certificate
TLSIdentityKeys ==
    {"AUTH_TYPE", "REMOTE_USER", "TLS_CLIENT_HASH", "TLS_CLIENT_NOT_BEFORE",
     "TLS_CLIENT_NOT_AFTER", "TLS_CLIENT_SERIAL_NUMBER", "TLS_CLIENT_VERIFIED",
     "TLS_CIPHER", "TLS_VERSION"}

\* the entries of the context that every request has
BaseKeys ==
    {"GEMINI_URL", "HOSTNAME", "PATH_INFO", "QUERY_STRING", "REMOTE_ADDR",
     "REMOTE_HOST", "SERVER_NAME", "SERVER_PORT", "SERVER_PROTOCOL",
     "SERVER_SOFTWARE"}

\* build_environ has returned the context of connection c's request
ContextBuilt(c) ==
    /\ co[c][1].pc \in {"await", "done"}
    /\ RaisedAt(conn[c], {"build_environ"}) = {}

\* C16: the context has the ten base entries and client_certificate in every
\* case; when the transport exposes a peer certificate it has all nine
\* TLS-identity entries (AUTH_TYPE "CERTIFICATE", the others read from the
\* certificate and the TLS session), and when it does not it has none of
\* them and client_certificate is None.
C16_IdentityKeysIffCertificate ==
    \A c \in Conns :
        ContextBuilt(c) =>
            LET environ == conn[c].environ
                cert == conn[c].peer_certificate
            IN /\ BaseKeys \cup {"client_certificate"} \subseteq DOMAIN environ
               /\ Cardinality(BaseKeys) = 10 /\ Cardinality(TLSIdentityKeys) = 9
               /\ cert.present =>
                      /\ DOMAIN environ =
                             BaseKeys \cup {"client_certificate"} \cup TLSIdentityKeys
                      /\ environ.client_certificate = cert
                      /\ environ.AUTH_TYPE = "CERTIFICATE"
                      /\ environ.REMOTE_USER = cert.common_name
                      /\ environ.TLS_CLIENT_VERIFIED = cert.verified
               /\ ~ cert.present =>
                      /\ DOMAIN environ = BaseKeys \cup {"client_certificate"}
                      /\ environ.client_certificate = NoneValue

\* C16 witness: a context was built for a connection with a client
\* certificate, and the application has been called with it.
C16_Witness ==
    /\ ContextBuilt(1)
    /\ conn[1].peer_certificate = ClientCertificate
    /\ co[1][1].pc = "done"
    /\ "TLS_CLIENT_HASH" \in DOMAIN conn[1].environ

\* C17 (the claim as stated): in the context, SERVER_NAME and HOSTNAME are
\* the server's configured hostname, SERVER_PORT is the server's port, and
\* REMOTE_ADDR and REMOTE_HOST are the peer's address.
C17_ServerAndPeerEntries ==
    \A c \in Conns :
        ContextBuilt(c) =>
            LET environ == conn[c].environ
            IN /\ environ.SERVER_NAME = Server.hostname
               /\ environ.HOSTNAME = Server.hostname
               /\ environ.SERVER_PORT = IntToStr(Server.port)
               /\ environ.REMOTE_ADDR = getPeer(c).host
               /\ environ.REMOTE_HOST = getPeer(c).host

\* the handlers of connection c with a call handed to the thread pool that
\* has not completed
Outstanding(c) ==
    {h \in Handlers : co[c][h].task \in {"queued", "running", "hung"}}

\* C18 (the claim as stated): at any time at most one call off-loaded to the
\* thread pool (the application call or a chunk pull) of a connection is
\* outstanding.
C18_OneTaskOutstanding ==
    \A c \in Conns : Cardinality(Outstanding(c)) <= 1

\* log_request has been called on connection c on its own
LogRequestCalled(c) == client[c] = 0 /\ co[c][1].pc = "done"

\* C15: log_request emits an access-log line only if url, status and meta
\* have all been set, the line carrying their values; if any of them was
\* never set (no request line received, a request line that failed to
\* parse, no status written) it emits nothing and leaves the connection as
\* it was.
C15_LogOnlyWithUrlStatusMeta ==
    \A c \in Conns :
        LET p == conn[c]
        IN /\ \A i \in AccessLines(p) :
                  /\ {"url", "status", "meta"} \subseteq p.attrs
                  /\ p.log[i] = [kind |-> "access", url |-> p.url,
                                  status |-> p.status, meta |-> p.meta,
                                  size |-> p.response_size]
           /\ (LogRequestCalled(c) /\ ~ ({"url", "status", "meta"} \subseteq p.attrs)) =>
                  /\ p.log = <<>>
                  /\ p \in LogInputs(c)
           /\ (LogRequestCalled(c) /\ "request" \notin p.attrs) => p.log = <<>>

\* C15 witness: log_request was called on a connection whose request line
\* failed to parse and whose status was set: url is missing, nothing logged.
C15_Witness ==
    /\ LogRequestCalled(1)
    /\ "url" \notin conn[1].attrs
    /\ {"request", "status", "meta"} \subseteq conn[1].attrs
    /\ conn[1].log = <<>>

\* C19: under fair scheduling, with application calls and chunk pulls that
\* all complete and a finite generator, a connection that has received a
\* request line eventually has its transport closed by the handler.
C19_ReceivedLeadsToClosed ==
    \A c \in Conns : ("request" \in conn[c].attrs) ~> Closed(c)

\* C19 witness: a request was dispatched, a chunk streamed, the generator
\* exhausted, and the handler closed the transport.
C19_Witness ==
    /\ co[1][1].pc = "done"
    /\ Calls(conn[1], "raise") = {}
    /\ \E j \in BodyWrites(conn[1]) : conn[1].transport[j].data # <<>>
    /\ Closed(1)

====
